---- MODULE Spec2Model ----
(***************************************************************************)
(* A model of qst_cgan: the state builders of qst_cgan/states.py (cat,     *)
(* num, binomial, gkp) and the operations of qst_cgan/ops.py               *)
(* (add_state_noise, measure, generalized_q).                              *)
(*                                                                         *)
(* Every function is pure, so a behaviour is one call: Init draws the      *)
(* function and its arguments from bounded sets, and the actions are the   *)
(* statements of the function's body, executed in program order until the  *)
(* call returns (pc = "done", err = "none") or raises (pc = "done",        *)
(* err # "none").                                                          *)
(*                                                                         *)
(* Kets are kept as formal sums: a sequence of terms [c, b], coefficient   *)
(* c times basis vector b, in the order the code adds them.  qutip and     *)
(* numpy are outside the repository; what the model takes from them is     *)
(* said where it is used.                                                  *)
(***************************************************************************)
EXTENDS Integers, Sequences, FiniteSets

VARIABLES
    fn,      \* the function being called
    args,    \* its arguments, as passed by the caller
    pc,      \* the position in its body
    loc,     \* its local variables other than the ones below
    acc,     \* the accumulator ket (cstates, state, psi, gkp)
    i,       \* the outer loop's index (k, n, m, n1)
    j,       \* the inner loop's index (n2)
    q,       \* generalized_q's output array
    wlog,    \* history: the cells of q written so far, in order
    ret,     \* the value returned
    err      \* the exception raised, or "none"

vars == <<fn, args, pc, loc, acc, i, j, q, wlog, ret, err>>

----------------------------------------------------------------------------
(* Bounds of the model. *)

\* the longest grid (xvec, yvec) passed to generalized_q
MaxGrid == 2
\* grid coordinates are drawn from 0..MaxGridVal
MaxGridVal == 1
\* the largest Hilbert space dimension of the rho passed to generalized_q
MaxDim == 2

\* num: the caller's tables have rows of at most MaxUserLen entries
MaxUserLen == 2
\* num: hilbert_size is drawn from 1 and the sizes within NumSpread of 32
NumSpread == 1
NumSizes == {1} \cup ((32 - NumSpread)..(32 + NumSpread))
\* binomial: hilbert_size is drawn from 1..MaxBinSize and 20, S from 0..MaxS,
\* an explicit order from 0..MaxOrder
MaxBinSize == 4
BinSizes == (1..MaxBinSize) \cup {20}
MaxS == 2
MaxOrder == 3
\* cat: alpha is drawn from 0..MaxAlpha
MaxAlpha == 2
\* gkp: zrange is drawn from 1..MaxZrange and the default, 20
MaxZrange == 2
\* add_state_noise: sigma is drawn from 0/SigmaDen .. SigmaDen/SigmaDen
SigmaDen == 2

----------------------------------------------------------------------------
(* Helpers. *)

\* Python's None and a value that is not None
None == [some |-> FALSE]
Some(x) == [some |-> TRUE, val |-> x]
IsNone(x) == ~x.some

\* All sequences over S of length at most n
SeqsUpTo(S, n) == UNION {[1..k -> S] : k \in 0..n}

NoLoc == [unused |-> TRUE]
NoKet == [built |-> FALSE, terms |-> <<>>]
NoArray == [shape |-> <<>>, cell |-> <<>>]
NoRet == [type |-> "unset"]

\* Python's range(n), and enumerate's 0-based index into a list
Range(n) == 0..(n - 1)
At(list, n) == list[n + 1]

----------------------------------------------------------------------------
(* ops.py: measure and generalized_q *)

\* beta = (x + 1j*p)/np.sqrt(2)
Beta(x, p) == [re |-> x, im |-> p, over |-> "sqrt2"]

\* measure(alpha, rho): the populations of rho displaced by -alpha.  displace
\* is qutip's; the result is kept as the pair it is computed from.
measure(alpha, rho) == [pop |-> "populations", alpha |-> alpha, rho |-> rho]

\* one cell of np.zeros(...): a vector of hilbertsize zeros
ZeroCell(rho) == [pop |-> "zeros", alpha |-> Beta(0, 0), rho |-> rho]

\* q = np.zeros(shape = (len(xvec), len(yvec), hilbertsize))
GQ_Shape(xvec, yvec, hilbertsize) == <<Len(xvec), Len(yvec), hilbertsize>>

\* the cell that q[i, j] = ... writes in iteration (i, j)
GQ_CellTransposed(ii, jj) == <<jj, ii>>
GQ_Cell(ii, jj) == <<ii, jj>>

\* numpy raises IndexError for an index outside the array's shape
InShape(shape, cell) == cell[1] \in Range(shape[1]) /\ cell[2] \in Range(shape[2])

GQ_Init ==
    /\ fn = "generalized_q"
    /\ \E xvec \in SeqsUpTo(0..MaxGridVal, MaxGrid), yvec \in SeqsUpTo(0..MaxGridVal, MaxGrid),
          dim \in 1..MaxDim :
            args = [rho |-> [dim |-> dim], xvec |-> xvec, yvec |-> yvec]
    /\ pc = "gq_alloc"
    /\ loc = NoLoc /\ acc = NoKet /\ i = 0 /\ j = 0
    /\ q = NoArray /\ wlog = <<>> /\ ret = NoRet /\ err = "none"

\* hilbertsize = rho.shape[0]; q = np.zeros(...)
GQ_Alloc ==
    /\ pc = "gq_alloc"
    /\ LET shape == GQ_Shape(args.xvec, args.yvec, args.rho.dim) IN
        q' = [shape |-> shape,
              cell |-> [c \in Range(shape[1]) \X Range(shape[2]) |-> ZeroCell(args.rho)]]
    /\ i' = 0
    /\ pc' = "gq_outer"
    /\ UNCHANGED <<fn, args, loc, acc, j, wlog, ret, err>>

\* for i, p in enumerate(yvec): ... ; return q
GQ_Outer ==
    /\ pc = "gq_outer"
    /\ IF i < Len(args.yvec)
         THEN /\ j' = 0
              /\ pc' = "gq_inner"
              /\ UNCHANGED ret
         ELSE /\ ret' = [type |-> "ndarray", shape |-> q.shape, cell |-> q.cell]
              /\ pc' = "done"
              /\ UNCHANGED j
    /\ UNCHANGED <<fn, args, loc, acc, i, q, wlog, err>>

\* for j, x in enumerate(xvec): beta = ...; q[i, j] = measure(beta, rho)
GQ_Inner ==
    /\ pc = "gq_inner"
    /\ IF j < Len(args.xvec)
         THEN LET p == At(args.yvec, i)
                  x == At(args.xvec, j)
                  beta == Beta(x, p)
                  cell == GQ_Cell(i, j)
              IN IF InShape(q.shape, cell)
                   THEN /\ q' = [q EXCEPT !.cell[cell] = measure(beta, args.rho)]
                        /\ wlog' = Append(wlog, cell)
                        /\ j' = j + 1
                        /\ UNCHANGED <<i, pc, err>>
                   ELSE /\ err' = "IndexError"
                        /\ pc' = "done"
                        /\ UNCHANGED <<i, j, q, wlog>>
         ELSE /\ i' = i + 1
              /\ pc' = "gq_outer"
              /\ UNCHANGED <<j, q, wlog, err>>
    /\ UNCHANGED <<fn, args, loc, acc, ret>>

----------------------------------------------------------------------------
(* Qobj.unit(), shared by the four builders of states.py *)

ConfigError == "ValueError: Specify a larger Hilbert size"
FockError == "ValueError: basis index out of range"

\* fock(hilbert_size, n) is qutip's: it raises ValueError unless 0 <= n < hilbert_size
FockInRange(hilbert_size, n) == n \in Range(hilbert_size)

\* ket = <accumulator>.unit(); return ket.  unit() divides by the norm.  Dividing
\* the zero vector is qutip's and numpy's business, not the repository's: the
\* call either raises or returns a ket that is not normalized.
UnitAndReturn(hilbert_size, zero) ==
    /\ pc' = "done"
    /\ IF ~zero
         THEN /\ ret' = [type |-> "ket", shape |-> <<hilbert_size, 1>>,
                         terms |-> acc.terms, unit |-> TRUE]
              /\ UNCHANGED err
         ELSE \/ /\ err' = "ZeroDivisionError"
                 /\ UNCHANGED ret
              \/ /\ ret' = [type |-> "ket", shape |-> <<hilbert_size, 1>>,
                            terms |-> acc.terms, unit |-> FALSE]
                 /\ UNCHANGED err

\* A sum of terms c * fock(N, b) with pairwise different b is the zero vector
\* exactly when every c is zero.
FockZero(terms) == \A t \in 1..Len(terms) : ~terms[t].c.nz

----------------------------------------------------------------------------
(* states.py: _get_num_prob and num *)

\* One literal amplitude table: a pair of rows (mu = 0, 1).  An entry is kept
\* as its place in the source, with whether the literal is non-zero.
Family(name, len, zeros0, zeros1) ==
    [fam |-> name,
     rows |-> << [n \in 1..len |-> [id |-> <<name, 0, n - 1>>, nz |-> (n - 1) \notin zeros0]],
                 [n \in 1..len |-> [id |-> <<name, 1, n - 1>>, nz |-> (n - 1) \notin zeros1]] >>]

states17 == Family("states17", 5, {1, 2, 4}, {0, 2, 3})
statesM == Family("statesM", 14, {}, {})
statesP == Family("statesP", 9, {0, 2, 3}, {2})
statesP2 == Family("statesP2", 16, {3, 7, 10, 11, 12}, {12})
statesM2 == Family("statesM2", 30, {}, {0})

all_num_codes == <<states17, statesM, statesM2, statesP, statesP2>>

\* probs = all_num_codes[idx]; return probs
get_num_prob(idx) == At(all_num_codes, idx)

\* the index num passes to _get_num_prob when probs is None
NumProbIdx == {0}

\* a table supplied by the caller: two rows of numbers
UserTable(row0, row1) ==
    [fam |-> "user",
     rows |-> << [n \in 1..Len(row0) |-> [id |-> <<"user", 0, n - 1, row0[n]>>, nz |-> row0[n] # 0]],
                 [n \in 1..Len(row1) |-> [id |-> <<"user", 1, n - 1, row1[n]>>, nz |-> row1[n] # 0]] >>]

\* (probs == None) and (hilbert_size < 32)
NumTooSmallInclusive(probs, hilbert_size) == IsNone(probs) /\ hilbert_size <= 32
NumTooSmall(probs, hilbert_size) == IsNone(probs) /\ hilbert_size < 32

Num_Init ==
    /\ fn = "num"
    /\ \E hs \in NumSizes, mu \in 0..1 :
         \E probs \in {None} \cup
                {Some(UserTable(r0, r1)) : r0, r1 \in (SeqsUpTo(0..1, MaxUserLen) \ {<<>>})} :
            args = [hilbert_size |-> hs, probs |-> probs, mu |-> mu]
    /\ pc = "num_check"
    /\ loc = NoLoc /\ acc = NoKet /\ i = 0 /\ j = 0
    /\ q = NoArray /\ wlog = <<>> /\ ret = NoRet /\ err = "none"

\* if (probs == None) and (hilbert_size < 32): raise ValueError(err)
Num_Check ==
    /\ pc = "num_check"
    /\ IF NumTooSmall(args.probs, args.hilbert_size)
         THEN err' = ConfigError /\ pc' = "done"
         ELSE pc' = "num_state" /\ UNCHANGED err
    /\ UNCHANGED <<fn, args, loc, acc, i, j, q, wlog, ret>>

\* state = fock(hilbert_size, 0) * 0
Num_State ==
    /\ pc = "num_state"
    /\ acc' = [built |-> TRUE, terms |-> <<>>]
    /\ pc' = "num_select"
    /\ UNCHANGED <<fn, args, loc, i, j, q, wlog, ret, err>>

\* if probs == None: probs = _get_num_prob(0)
Num_Select ==
    /\ pc = "num_select"
    /\ IF IsNone(args.probs)
         THEN \E idx \in NumProbIdx : loc' = [probs |-> get_num_prob(idx)]
         ELSE loc' = [probs |-> args.probs.val]
    /\ i' = 0
    /\ pc' = "num_loop"
    /\ UNCHANGED <<fn, args, acc, j, q, wlog, ret, err>>

\* for n, p in enumerate(probs[mu]): state += p * fock(hilbert_size, n)
Num_Loop ==
    /\ pc = "num_loop"
    /\ LET row == At(loc.probs.rows, args.mu) IN
        IF i < Len(row)
          THEN IF FockInRange(args.hilbert_size, i)
                 THEN /\ acc' = [acc EXCEPT !.terms = Append(@, [c |-> At(row, i), b |-> i])]
                      /\ i' = i + 1
                      /\ UNCHANGED <<pc, err>>
                 ELSE /\ err' = FockError
                      /\ pc' = "done"
                      /\ UNCHANGED <<acc, i>>
          ELSE /\ pc' = "num_unit"
               /\ UNCHANGED <<acc, i, err>>
    /\ UNCHANGED <<fn, args, loc, j, q, wlog, ret>>

\* ket = state.unit(); return ket
Num_Unit ==
    /\ pc = "num_unit"
    /\ UnitAndReturn(args.hilbert_size, FockZero(acc.terms))
    /\ UNCHANGED <<fn, args, loc, acc, i, j, q, wlog>>

----------------------------------------------------------------------------
(* states.py: binomial *)

\* scipy.special.binom(n, k) for integers 0 <= k, n
RECURSIVE binom(_, _)
binom(n, k) ==
    IF k = 0 THEN 1
    ELSE IF n = 0 THEN 0
    ELSE binom(n - 1, k - 1) + binom(n - 1, k)

RECURSIVE Pow(_, _)
Pow(b, e) == IF e = 0 THEN 1 ELSE b * Pow(b, e - 1)

\* np.random.randint(0, Nmax) draws from [0, Nmax) and raises when the interval
\* is empty; the except clause then takes N = Nmax
BinDraws(Nmax) == IF Nmax > 0 THEN Range(Nmax) ELSE {Nmax}

\* for m in range(N)
BinRangeInclusive(N) == 0..N
BinRange(N) == Range(N)

\* c * ((-1) ** (mu * m)) * np.sqrt(binom(N + 1, m)): kept as its sign and its
\* square, binom(N + 1, m) / 2 ** (N + 1)
BinAmplitude(N, mu, m) ==
    [sign |-> IF (mu * m) % 2 = 0 THEN 1 ELSE -1,
     sq_num |-> binom(N + 1, m),
     sq_den |-> Pow(2, N + 1),
     nz |-> binom(N + 1, m) # 0]

Bin_Init ==
    /\ fn = "binomial"
    /\ \E hs \in BinSizes, S \in 0..MaxS, mu \in 0..1,
          N \in {None} \cup {Some(n) : n \in 0..MaxOrder} :
            args = [hilbert_size |-> hs, S |-> S, N |-> N, mu |-> mu]
    /\ pc = "bin_order"
    /\ loc = NoLoc /\ acc = NoKet /\ i = 0 /\ j = 0
    /\ q = NoArray /\ wlog = <<>> /\ ret = NoRet /\ err = "none"

\* if N == None: Nmax = int(hilbert_size / (S + 1)) - 1; try: N = randint(0, Nmax)
\* except: N = Nmax
Bin_Order ==
    /\ pc = "bin_order"
    /\ IF IsNone(args.N)
         THEN LET Nmax == (args.hilbert_size \div (args.S + 1)) - 1 IN
              \E N \in BinDraws(Nmax) : loc' = [N |-> N]
         ELSE loc' = [N |-> args.N.val]
    /\ pc' = "bin_psi"
    /\ UNCHANGED <<fn, args, acc, i, j, q, wlog, ret, err>>

\* c = 1 / sqrt(2 ** (N + 1)); psi = 0 * fock(hilbert_size, 0)
Bin_Psi ==
    /\ pc = "bin_psi"
    /\ acc' = [built |-> TRUE, terms |-> <<>>]
    /\ i' = 0
    /\ pc' = "bin_loop"
    /\ UNCHANGED <<fn, args, loc, j, q, wlog, ret, err>>

\* for m in range(N): psi += c * ... * fock(hilbert_size, (S + 1) * m)
Bin_Loop ==
    /\ pc = "bin_loop"
    /\ IF i \in BinRange(loc.N)
         THEN LET b == (args.S + 1) * i IN
              IF FockInRange(args.hilbert_size, b)
                THEN /\ acc' = [acc EXCEPT !.terms =
                                  Append(@, [c |-> BinAmplitude(loc.N, args.mu, i), b |-> b])]
                     /\ i' = i + 1
                     /\ UNCHANGED <<pc, err>>
                ELSE /\ err' = FockError
                     /\ pc' = "done"
                     /\ UNCHANGED <<acc, i>>
         ELSE /\ pc' = "bin_unit"
              /\ UNCHANGED <<acc, i, err>>
    /\ UNCHANGED <<fn, args, loc, j, q, wlog, ret>>

\* ket = psi.unit(); return ket
Bin_Unit ==
    /\ pc = "bin_unit"
    /\ UnitAndReturn(args.hilbert_size, FockZero(acc.terms))
    /\ UNCHANGED <<fn, args, loc, acc, i, j, q, wlog>>

----------------------------------------------------------------------------
(* states.py: cat *)

\* A complex number in polar form.  Every phase cat computes is a multiple of
\* pi / (2 * (S + 1)), so a phase is kept as that multiple, modulo one turn;
\* the number 0 has phase 0.
Turn(S) == 4 * (S + 1)
Polar(mag, ph, S) == [mag |-> mag, ph |-> IF mag = 0 THEN 0 ELSE ph % Turn(S)]
CMul(a, b, S) == Polar(a.mag * b.mag, a.ph + b.ph, S)
CNeg(a, S) == Polar(a.mag, a.ph + 2 * (S + 1), S)

\* np.exp(1j * (np.pi / (S + 1)) * k)
CatPrefactor(k, S) == Polar(1, 2 * k, S)
\* -((1j) ** mu), for mu in {0, 1}
CatMinusIPow(mu, S) == CNeg(Polar(1, mu * (S + 1), S), S)

\* sign = 1; if k >= S: sign = (-1) ** int(mu > 0.5)
CatSign(k, S, mu) == IF k >= S /\ mu >= 1 THEN -1 ELSE 1

\* range(0, int((kend + 1) / 2)) with kend = 2 * S + 1
CatRange(S) == Range(((2 * S + 1) + 1) \div 2)

\* the two terms one iteration adds:
\*   sign * coherent(hilbert_size,  prefactor * alpha * (-((1j) ** mu)))
\*   sign * coherent(hilbert_size, -prefactor * alpha * (-((1j) ** mu)))
CatTermsOdd(k, alpha, S, mu) ==
    LET z == CMul(CMul(CatPrefactor(k, S), alpha, S), CatMinusIPow(mu, S), S) IN
    << [c |-> CatSign(k, S, mu), b |-> z],
       [c |-> -CatSign(k, S, mu), b |-> CMul(CMul(CNeg(CatPrefactor(k, S), S), alpha, S),
                                            CatMinusIPow(mu, S), S)] >>
CatTerms(k, alpha, S, mu) ==
    LET z == CMul(CMul(CatPrefactor(k, S), alpha, S), CatMinusIPow(mu, S), S) IN
    << [c |-> CatSign(k, S, mu), b |-> z],
       [c |-> CatSign(k, S, mu), b |-> CMul(CMul(CNeg(CatPrefactor(k, S), S), alpha, S),
                                           CatMinusIPow(mu, S), S)] >>

\* the coefficient a sum of coherent states gives to coherent(N, z)
RECURSIVE CoefficientOf(_, _)
CoefficientOf(terms, z) ==
    IF terms = <<>> THEN 0
    ELSE (IF Head(terms).b = z THEN Head(terms).c ELSE 0) + CoefficientOf(Tail(terms), z)

\* Coherent states of different displacements are taken to be linearly
\* independent (true of the cutoffs the tests use, false of a cutoff as small as
\* 1): the sum is the zero vector exactly when every coefficient cancels.
CoherentZero(terms) == \A t \in 1..Len(terms) : CoefficientOf(terms, terms[t].b) = 0

Cat_Init ==
    /\ fn = "cat"
    /\ \E hs \in {8, 16}, mag \in 0..MaxAlpha, S \in 0..MaxS, mu \in 0..1 :
            args = [hilbert_size |-> hs, alpha |-> Polar(mag, 0, S), S |-> S, mu |-> mu]
    /\ pc = "cat_cstates"
    /\ loc = NoLoc /\ acc = NoKet /\ i = 0 /\ j = 0
    /\ q = NoArray /\ wlog = <<>> /\ ret = NoRet /\ err = "none"

\* kend = 2 * S + 1; cstates = 0 * (coherent(hilbert_size, 0))
Cat_Cstates ==
    /\ pc = "cat_cstates"
    /\ acc' = [built |-> TRUE, terms |-> <<>>]
    /\ i' = 0
    /\ pc' = "cat_loop"
    /\ UNCHANGED <<fn, args, loc, j, q, wlog, ret, err>>

\* for k in range(0, int((kend + 1) / 2)): ... cstates += ...; cstates += ...
Cat_Loop ==
    /\ pc = "cat_loop"
    /\ IF i \in CatRange(args.S)
         THEN /\ acc' = [acc EXCEPT !.terms = @ \o CatTerms(i, args.alpha, args.S, args.mu)]
              /\ i' = i + 1
              /\ UNCHANGED pc
         ELSE /\ pc' = "cat_unit"
              /\ UNCHANGED <<acc, i>>
    /\ UNCHANGED <<fn, args, loc, j, q, wlog, ret, err>>

\* ket = cstates.unit(); return ket
Cat_Unit ==
    /\ pc = "cat_unit"
    /\ UnitAndReturn(args.hilbert_size, CoherentZero(acc.terms))
    /\ UNCHANGED <<fn, args, loc, acc, i, j, q, wlog>>

----------------------------------------------------------------------------
(* states.py: gkp *)

\* zrange = range(-20, 20): the parameter is overwritten before it is read
GkpRangeOfArgument(zrange) == (-zrange)..(zrange - 1)
GkpRange(zrange) == (-20)..(20 - 1)

\* a = c * (2 * n1 + mu + 1j * n2), kept in units of c = sqrt(pi / 2);
\* the term added is exp(-delta^2 |a|^2) * exp(-1j c^2 2 n1 n2) * coherent(N, a)
GkpTerm(delta, mu, n1, n2) ==
    [c |-> [delta |-> delta, n1 |-> n1, n2 |-> n2], b |-> [re |-> 2 * n1 + mu, im |-> n2]]

\* The lattice points are pairwise different and every weight is a non-zero
\* exponential: the sum is taken to be zero only when it has no term.
GkpZero(terms) == terms = <<>>

Gkp_Init ==
    /\ fn = "gkp"
    /\ \E mu \in 0..1, zrange \in {20} \cup (1..MaxZrange) :
            args = [hilbert_size |-> 32, delta |-> 1, mu |-> mu, zrange |-> zrange]
    /\ pc = "gkp_zero"
    /\ loc = NoLoc /\ acc = NoKet /\ i = 0 /\ j = 0
    /\ q = NoArray /\ wlog = <<>> /\ ret = NoRet /\ err = "none"

\* gkp = 0 * coherent(hilbert_size, 0); c = np.sqrt(np.pi / 2); zrange = range(-20, 20)
Gkp_Zero ==
    /\ pc = "gkp_zero"
    /\ acc' = [built |-> TRUE, terms |-> <<>>]
    /\ LET zrange == GkpRange(args.zrange) IN
         /\ loc' = [zrange |-> zrange]
         /\ i' = IF zrange = {} THEN 0 ELSE CHOOSE n \in zrange : \A m \in zrange : n <= m
    /\ pc' = "gkp_outer"
    /\ UNCHANGED <<fn, args, j, q, wlog, ret, err>>

\* for n1 in zrange:
Gkp_Outer ==
    /\ pc = "gkp_outer"
    /\ IF i \in loc.zrange
         THEN /\ j' = CHOOSE n \in loc.zrange : \A m \in loc.zrange : n <= m
              /\ pc' = "gkp_inner"
         ELSE /\ pc' = "gkp_unit"
              /\ UNCHANGED j
    /\ UNCHANGED <<fn, args, loc, acc, i, q, wlog, ret, err>>

\* for n2 in zrange: a = ...; alpha = coherent(hilbert_size, a); gkp += ...
Gkp_Inner ==
    /\ pc = "gkp_inner"
    /\ IF j \in loc.zrange
         THEN /\ acc' = [acc EXCEPT !.terms = Append(@, GkpTerm(args.delta, args.mu, i, j))]
              /\ j' = j + 1
              /\ UNCHANGED <<i, pc>>
         ELSE /\ i' = i + 1
              /\ pc' = "gkp_outer"
              /\ UNCHANGED <<acc, j>>
    /\ UNCHANGED <<fn, args, loc, q, wlog, ret, err>>

\* ket = gkp.unit(); return ket
Gkp_Unit ==
    /\ pc = "gkp_unit"
    /\ UnitAndReturn(args.hilbert_size, GkpZero(acc.terms))
    /\ UNCHANGED <<fn, args, loc, acc, i, j, q, wlog>>

----------------------------------------------------------------------------
(* ops.py: add_state_noise *)

\* Matrices and scalars are exact rationals: an integer numerator (a matrix, or
\* a number) over an integer denominator.  Nothing is reduced to lowest terms;
\* two rationals are equal when they cross-multiply to the same thing.
Dim(m) == Len(m)
MScale(k, m) == [r \in 1..Dim(m) |-> [c \in 1..Dim(m) |-> k * m[r][c]]]
MAdd(a, b) == [r \in 1..Dim(a) |-> [c \in 1..Dim(a) |-> a[r][c] + b[r][c]]]
RECURSIVE DiagSum(_, _)
DiagSum(m, n) == IF n = 0 THEN 0 ELSE m[n][n] + DiagSum(m, n - 1)

Rat(n, d) == [n |-> n, d |-> d]
\* s * M, A + B, M.tr(), M / s
RScale(s, M) == Rat(MScale(s.n, M.n), s.d * M.d)
RAdd(A, B) == Rat(MAdd(MScale(B.d, A.n), MScale(A.d, B.n)), A.d * B.d)
RTr(M) == Rat(DiagSum(M.n, Dim(M.n)), M.d)
RDiv(M, s) == Rat(MScale(s.d, M.n), M.d * s.n)
REq(A, B) == MScale(B.d, A.n) = MScale(A.d, B.n)

\* sigma = k / SigmaDen, and 1 - sigma
Sigma(k) == Rat(k, SigmaDen)
OneMinus(s) == Rat(s.d - s.n, s.d)

\* (1 - sigma)*dm + sigma*(rand_dm(hilbertsize, sparsity)): the weights of the
\* input state and of the random state
MixWeightsDocstring(sigma) == [dm |-> sigma, rand |-> OneMinus(sigma)]
MixWeights(sigma) == [dm |-> OneMinus(sigma), rand |-> sigma]

\* Hermitian positive semi-definite numerators of each dimension
Numerators(dim) ==
    IF dim = 1 THEN { <<<<1>>>>, <<<<2>>>> }
    ELSE { <<<<1, 0>>, <<0, 0>>>>, <<<<0, 0>>, <<0, 1>>>>, <<<<1, 0>>, <<0, 1>>>>,
           <<<<1, 1>>, <<1, 1>>>>, <<<<2, 0>>, <<0, 1>>>> }

\* rand_dm(hilbertsize, sparsity) is qutip's: some density matrix (trace 1) of
\* that dimension
RandDm(hilbertsize) == { Rat(n, DiagSum(n, hilbertsize)) : n \in Numerators(hilbertsize) }

ASN_Init ==
    /\ fn = "add_state_noise"
    /\ \E dim \in {1, 2}, k \in 0..SigmaDen :
         \E n \in Numerators(dim) : \E d \in {1, DiagSum(n, dim)} :
            args = [dm |-> Rat(n, d), sigma |-> Sigma(k), sparsity |-> Rat(1, 100)]
    /\ pc = "asn_mix"
    /\ loc = NoLoc /\ acc = NoKet /\ i = 0 /\ j = 0
    /\ q = NoArray /\ wlog = <<>> /\ ret = NoRet /\ err = "none"

\* hilbertsize = dm.shape[0]
\* rho = (1 - sigma)*dm + sigma*(rand_dm(hilbertsize, sparsity))
ASN_Mix ==
    /\ pc = "asn_mix"
    /\ LET hilbertsize == Dim(args.dm.n)
           w == MixWeights(args.sigma)
       IN \E R \in RandDm(hilbertsize) :
            loc' = [R |-> R, rho |-> RAdd(RScale(w.dm, args.dm), RScale(w.rand, R))]
    /\ pc' = "asn_renorm"
    /\ UNCHANGED <<fn, args, acc, i, j, q, wlog, ret, err>>

\* rho = rho/rho.tr(); return rho
ASN_Renorm ==
    /\ pc = "asn_renorm"
    /\ LET tr == RTr(loc.rho) IN
        IF tr.n # 0
          THEN /\ ret' = [type |-> "oper", shape |-> <<Dim(loc.rho.n), Dim(loc.rho.n)>>,
                          m |-> RDiv(loc.rho, Rat(tr.n, tr.d))]
               /\ UNCHANGED err
          ELSE /\ err' = "ZeroDivisionError"
               /\ UNCHANGED ret
    /\ pc' = "done"
    /\ UNCHANGED <<fn, args, loc, acc, i, j, q, wlog>>

----------------------------------------------------------------------------
Init ==
    \/ GQ_Init
    \/ Num_Init
    \/ Bin_Init
    \/ Cat_Init
    \/ Gkp_Init
    \/ ASN_Init

Next ==
    \/ GQ_Alloc
    \/ GQ_Outer
    \/ GQ_Inner
    \/ Num_Check
    \/ Num_State
    \/ Num_Select
    \/ Num_Loop
    \/ Num_Unit
    \/ Bin_Order
    \/ Bin_Psi
    \/ Bin_Loop
    \/ Bin_Unit
    \/ Cat_Cstates
    \/ Cat_Loop
    \/ Cat_Unit
    \/ Gkp_Zero
    \/ Gkp_Outer
    \/ Gkp_Inner
    \/ Gkp_Unit
    \/ ASN_Mix
    \/ ASN_Renorm

Spec == Init /\ [][Next]_vars

----------------------------------------------------------------------------
(* Properties of generalized_q *)

\* the cells of a len(yvec) x len(xvec) grid in row-major order
RowMajor(ly, lx) == [n \in 1..(ly * lx) |-> <<(n - 1) \div lx, (n - 1) % lx>>]

\* C1: for every rho and every pair of grids, generalized_q ends without an
\* IndexError and returns an array of shape (len(yvec), len(xvec), N).
C1_ShapeYXN ==
    (fn = "generalized_q" /\ pc = "done") =>
        /\ err = "none"
        /\ ret.shape = <<Len(args.yvec), Len(args.xvec), args.rho.dim>>

\* C2: generalized_q writes the cells in row-major order (yvec outside, xvec
\* inside), never one twice, and when it finishes (it returns q) every cell
\* [i, j] with i < len(yvec), j < len(xvec) was written exactly once and holds
\* measure((xvec[j] + 1j*yvec[i])/sqrt(2), rho), not its initial zeros.
C2_RowMajorWrittenOnce ==
    (fn = "generalized_q") =>
        LET order == RowMajor(Len(args.yvec), Len(args.xvec)) IN
        /\ Len(wlog) <= Len(order)
        /\ \A n \in 1..Len(wlog) : wlog[n] = order[n]
        /\ (pc = "done" /\ err = "none") =>
             /\ wlog = order
             /\ \A c \in Range(Len(args.yvec)) \X Range(Len(args.xvec)) :
                  /\ c \in DOMAIN ret.cell
                  /\ ret.cell[c] = measure(Beta(At(args.xvec, c[2]), At(args.yvec, c[1])), args.rho)
                  /\ ret.cell[c] # ZeroCell(args.rho)

\* a scan of a 2 x 2 grid with two different x coordinates has returned
C2_Witness ==
    /\ fn = "generalized_q" /\ pc = "done" /\ err = "none"
    /\ Len(args.xvec) = 2 /\ Len(args.yvec) = 2
    /\ args.xvec[1] # args.xvec[2]

----------------------------------------------------------------------------
(* Properties of num *)

\* C3: num raises its configuration error exactly when probs is omitted and
\* hilbert_size < 32, and raises it before any state is built.
C3_ConfigErrorExactly ==
    (fn = "num" /\ pc # "num_check") =>
        /\ (err = ConfigError) <=> (IsNone(args.probs) /\ args.hilbert_size < 32)
        /\ (err = ConfigError) => (pc = "done" /\ ~acc.built /\ acc.terms = <<>> /\ ret = NoRet)

\* a call without probs, one below the threshold, has raised
C3_Witness ==
    /\ fn = "num" /\ pc = "done" /\ err = ConfigError
    /\ IsNone(args.probs) /\ args.hilbert_size = 31

\* C8: with probs omitted, each of the five families of _get_num_prob is a
\* possible outcome of the selection.
C8_EachFamilyPossible ==
    (fn = "num" /\ pc = "num_select" /\ IsNone(args.probs)) =>
        \A f \in {"states17", "statesM", "statesM2", "statesP", "statesP2"} :
            ENABLED (Num_Select /\ loc'.probs.fam = f)

----------------------------------------------------------------------------
(* Properties of binomial *)

RECURSIVE Factorial(_)
Factorial(n) == IF n = 0 THEN 1 ELSE n * Factorial(n - 1)
Choose(n, k) == Factorial(n) \div (Factorial(k) * Factorial(n - k))

\* C6: with an explicit order, binomial adds exactly the terms m = 0..order-1,
\* term m at Fock index (S+1)*m with sign (-1)^(mu*m) and squared weight
\* C(order+1, m) / 2^(order+1); binomial(20, S=1, order=3, mu=0) has amplitudes
\* at 0, 2, 4 only, with squared weights as 1 : 4 : 6.
C6_ExplicitOrderTerms ==
    (fn = "binomial" /\ args.N.some /\ acc.built) =>
        LET order == args.N.val
            terms == acc.terms
        IN /\ Len(terms) <= order
           /\ \A t \in 1..Len(terms) :
                /\ terms[t].b = (args.S + 1) * (t - 1)
                /\ terms[t].c.sign = (IF (args.mu * (t - 1)) % 2 = 0 THEN 1 ELSE -1)
                /\ terms[t].c.sq_num = Choose(order + 1, t - 1)
                /\ terms[t].c.sq_den = 2 ^ (order + 1)
           /\ (pc = "bin_unit" \/ (pc = "done" /\ err # FockError)) => Len(terms) = order
           /\ (pc = "done" /\ args.hilbert_size = 20 /\ args.S = 1 /\ order = 3 /\ args.mu = 0) =>
                /\ err = "none" /\ ret.unit
                /\ [t \in 1..Len(ret.terms) |-> <<ret.terms[t].b, ret.terms[t].c.sq_num>>]
                     = << <<0, 1>>, <<2, 4>>, <<4, 6>> >>

\* binomial(20, S=1, order=3, mu=0) has returned
C6_Witness ==
    /\ fn = "binomial" /\ pc = "done" /\ err = "none"
    /\ args.hilbert_size = 20 /\ args.S = 1 /\ args.N = Some(3) /\ args.mu = 0

\* C9: with order omitted, the order used always gives the sum at least one
\* term, and binomial returns a unit-norm vector for every outcome of the draw.
C9_DefaultOrderUnitNorm ==
    (fn = "binomial" /\ IsNone(args.N)) =>
        /\ (pc \in {"bin_psi", "bin_loop", "bin_unit", "done"}) => loc.N >= 1
        /\ (pc = "done") => (err = "none" /\ ret.unit)

----------------------------------------------------------------------------
(* Properties of cat *)

\* C5: what cat returns has shape (N, N): it is a density matrix.
C5_CatReturnsDensityMatrix ==
    (fn = "cat" /\ pc = "done" /\ err = "none") =>
        /\ ret.type = "oper"
        /\ ret.shape = <<args.hilbert_size, args.hilbert_size>>

\* C7, as stated: cat with alpha = 0, S = 0, mu = 0 accumulates the zero vector
\* and fails in the normalization.
C7_ZeroAlphaFails ==
    (fn = "cat" /\ args.alpha.mag = 0 /\ args.S = 0 /\ args.mu = 0) =>
        /\ (pc = "cat_unit") => CoherentZero(acc.terms)
        /\ (pc = "done") => err = "ZeroDivisionError"

\* C7, amended: cat with alpha = 0, S = 0, mu = 0 accumulates 2 * coherent(N, 0)
\* and returns the normalized vacuum; with alpha = 0 the accumulator is the
\* zero vector only for S = 1, mu = 1.
C7_ZeroAlphaIsVacuum ==
    (fn = "cat" /\ args.alpha.mag = 0 /\ pc \in {"cat_unit", "done"}) =>
        /\ (args.S = 0 /\ args.mu = 0) =>
             /\ Len(acc.terms) = 2
             /\ CoefficientOf(acc.terms, Polar(0, 0, 0)) = 2
             /\ (pc = "done") => (err = "none" /\ ret.type = "ket" /\ ret.unit)
        /\ CoherentZero(acc.terms) <=> (args.S = 1 /\ args.mu = 1)

\* cat(N, 0) has returned
C7_Witness ==
    /\ fn = "cat" /\ pc = "done" /\ err = "none"
    /\ args.alpha.mag = 0 /\ args.S = 0 /\ args.mu = 0

----------------------------------------------------------------------------
(* Properties of gkp *)

\* the 40 x 40 lattice terms, n1 outside and n2 inside, each over [-20, 20)
GkpLatticeTerm(delta, mu, n) == GkpTerm(delta, mu, ((n - 1) \div 40) - 20, ((n - 1) % 40) - 20)

----------------------------------------------------------------------------
(* Properties of add_state_noise *)

====
